---- MODULE Spec2Model ----
(***************************************************************************)
(* Model of AQI_Monitoring_oled/convert_icons.py: reverse_bits and         *)
(* process_file (array pass, call pass, read and write of the sketch).     *)
(* Text is a sequence of one-character strings, so that the regular        *)
(* expressions, the formatting and the parsing are computed character by   *)
(* character, as the script computes them.                                 *)
(***************************************************************************)
EXTENDS Integers, Sequences, FiniteSets, TLC

\* pc           where the run stands
\* inp          the input of the run as it was drawn
\* disk         the text of the file named by filename
\* content      process_file's content
\* new_content  process_file's new_content
\* loc          the locals of replacement, with the match it was called on
\* again        the output of a pass applied to its own output
VARIABLES pc, inp, disk, content, new_content, loc, again

vars == <<pc, inp, disk, content, new_content, loc, again>>

(***************************************************************************)
(* Bounds of the model.                                                    *)
(***************************************************************************)
\* tokens drawn freely into an array body
MaxToks == 2
\* full lines of WrapWidth literals put in front of the free tokens
MaxLines == 2
\* drawBitmap calls in a buffer of the call pass
MaxCalls == 3

(***************************************************************************)
(* Characters and strings.                                                 *)
(***************************************************************************)
Digits == <<"0", "1", "2", "3", "4", "5", "6", "7", "8", "9">>
HexLower == Digits \o <<"a", "b", "c", "d", "e", "f">>
HexUpper == Digits \o <<"A", "B", "C", "D", "E", "F">>
Letters == {"a", "b", "c", "d", "e", "f", "g", "h", "i", "j", "k", "l", "m",
            "n", "o", "p", "q", "r", "s", "t", "u", "v", "w", "x", "y", "z",
            "A", "B", "C", "D", "E", "F", "G", "H", "I", "J", "K", "L", "M",
            "N", "O", "P", "Q", "R", "S", "T", "U", "V", "W", "X", "Y", "Z"}

Range(s) == {s[i] : i \in 1..Len(s)}

\* \s of the re module, on the characters the model's texts hold
Space == {" ", "\t", "\n", "\r"}
\* \w
WordChars == Letters \cup Range(Digits) \cup {"_"}
\* [0-9a-fA-F]
HexChars == Range(HexLower) \cup Range(HexUpper)

DigitValue(c) ==
    IF c \in Range(HexLower)
    THEN (CHOOSE i \in 1..16 : HexLower[i] = c) - 1
    ELSE (CHOOSE i \in 1..16 : HexUpper[i] = c) - 1

\* s[a..b], empty when b < a
Slice(s, a, b) == IF b < a THEN <<>> ELSE SubSeq(s, a, b)

\* s[::-1]
Reversed(s) == [i \in 1..Len(s) |-> s[Len(s) + 1 - i]]

\* whether lit stands in s at position p
At(s, p, lit) ==
    /\ p >= 1
    /\ p + Len(lit) - 1 <= Len(s)
    /\ \A i \in 1..Len(lit) : s[p + i - 1] = lit[i]

\* the least member of a set of positions, 0 for the empty set
First(hits) == IF hits = {} THEN 0 ELSE CHOOSE q \in hits : \A r \in hits : q <= r

\* the first position q >= p whose character is in (stop = TRUE) or not in
\* (stop = FALSE) the set cs; Len(s) + 1 when there is none
Scan(s, p, cs, stop) ==
    LET hits == {q \in p..Len(s) : (s[q] \in cs) = stop}
    IN IF hits = {} THEN Len(s) + 1 ELSE First(hits)

\* str.strip(chars)
Strip(s, cs) ==
    LET a == Scan(s, 1, cs, FALSE)
        keep == {q \in 1..Len(s) : s[q] \notin cs}
        b == IF keep = {} THEN 0 ELSE CHOOSE q \in keep : \A r \in keep : r <= q
    IN Slice(s, a, b)

RECURSIVE Join(_, _)
\* sep.join(parts)
Join(parts, sep) ==
    IF Len(parts) = 0 THEN <<>>
    ELSE IF Len(parts) = 1 THEN parts[1]
    ELSE parts[1] \o sep \o Join(Tail(parts), sep)

RECURSIVE SplitFrom(_, _, _)
\* the pieces of s from position p on, cut at each occurrence of sep
SplitFrom(s, sep, p) ==
    LET q == First({r \in p..Len(s) : At(s, r, sep)})
    IN IF q = 0 THEN <<Slice(s, p, Len(s))>>
       ELSE <<Slice(s, p, q - 1)>> \o SplitFrom(s, sep, q + Len(sep))

\* s.split(sep): '' splits into ['']
Split(s, sep) == SplitFrom(s, sep, 1)

RECURSIVE ToBase(_, _, _)
\* the digits of n in base b, most significant first
ToBase(n, b, digs) ==
    IF n < b THEN <<digs[n + 1]>>
    ELSE ToBase(n \div b, b, digs) \o <<digs[(n % b) + 1]>>

RECURSIVE ZeroPad(_, _)
\* the 0 fill of a format width: no cut when s is longer
ZeroPad(s, w) == IF Len(s) >= w THEN s ELSE ZeroPad(<<"0">> \o s, w)

RECURSIVE ParseDigits(_, _)
ParseDigits(s, b) ==
    IF Len(s) = 0 THEN 0
    ELSE ParseDigits(Slice(s, 1, Len(s) - 1), b) * b + DigitValue(s[Len(s)])

\* int(s, base) of a text with its surrounding whitespace and, in base 16, an
\* optional 0x prefix
ParseInt(s, b) ==
    LET t == Strip(s, Space)
        d == IF b = 16 /\ (At(t, 1, <<"0", "x">>) \/ At(t, 1, <<"0", "X">>))
             THEN Slice(t, 3, Len(t)) ELSE t
    IN ParseDigits(d, b)

(***************************************************************************)
(* reverse_bits                                                            *)
(***************************************************************************)
\* a slip: the format without its width, '{:b}'
reverse_bits_nopad(n) == ParseInt(Reversed(ToBase(n, 2, Digits)), 2)

\* int('{:08b}'.format(n)[::-1], 2)
reverse_bits(n) == ParseInt(Reversed(ZeroPad(ToBase(n, 2, Digits), 8)), 2)

(***************************************************************************)
(* Matching.  A position is an index into the text; 0 stands for "no       *)
(* match".  Both patterns are deterministic: every repetition is followed  *)
(* by a character outside its class, so the greedy match is the only one.  *)
(***************************************************************************)
\* a literal at p: the position after it
Lit(s, p, lit) == IF p > 0 /\ At(s, p, lit) THEN p + Len(lit) ELSE 0

\* \s* at p
Ws0(s, p) == IF p = 0 THEN 0 ELSE Scan(s, p, Space, FALSE)

\* \s+ at p
Ws1(s, p) == LET q == Ws0(s, p) IN IF q > p THEN q ELSE 0

\* [cs]+ at p
Run1(s, p, cs) ==
    IF p = 0 THEN 0
    ELSE LET q == Scan(s, p, cs, FALSE) IN IF q > p THEN q ELSE 0

\* [^c]+ at p with c after it: the position of that c.  \s*[^c]+ matches the
\* same span, the whitespace being outside c
Until1(s, p, c) ==
    IF p = 0 THEN 0
    ELSE LET q == Scan(s, p, {c}, TRUE)
         IN IF q > p /\ q <= Len(s) THEN q ELSE 0

(***************************************************************************)
(* process_file: the array pass                                            *)
(***************************************************************************)
TxtConst == <<"c", "o", "n", "s", "t">>
TxtUnsigned == <<"u", "n", "s", "i", "g", "n", "e", "d">>
TxtChar == <<"c", "h", "a", "r">>
TxtProgmem == <<"P", "R", "O", "G", "M", "E", "M">>
TxtDeclHead == <<"c", "o", "n", "s", "t", " ", "u", "n", "s", "i", "g", "n",
                 "e", "d", " ", "c", "h", "a", "r", " ">>
TxtDeclMid == <<"[", "]", " ", "P", "R", "O", "G", "M", "E", "M", " ", "=",
                " ", "{">>
TxtDeclEnd == <<"}", ";">>
TxtHexPrefix == <<"0", "x">>
TxtCommaSpace == <<",", " ">>

\* the values of a line of the wrapped body
WrapWidth == 12

NoMatch == [ok |-> FALSE, end |-> 0, name |-> <<>>, hex_data |-> <<>>]

\* pattern.match at position p:
\* const\s+unsigned\s+char\s+(\w+)\s*\[\]\s*PROGMEM\s*=\s*\{([^}]+)\};
MatchPattern(s, p) ==
    LET a1 == Ws1(s, Lit(s, p, TxtConst))
        a2 == Ws1(s, Lit(s, a1, TxtUnsigned))
        a3 == Ws1(s, Lit(s, a2, TxtChar))
        a4 == Run1(s, a3, WordChars)
        a5 == Lit(s, Ws0(s, a4), <<"[", "]">>)
        a6 == Lit(s, Ws0(s, a5), TxtProgmem)
        a7 == Lit(s, Ws0(s, a6), <<"=">>)
        a8 == Lit(s, Ws0(s, a7), <<"{">>)
        a9 == Until1(s, a8, "}")
        a10 == Lit(s, a9, TxtDeclEnd)
    IN IF a10 = 0 THEN NoMatch
       ELSE [ok |-> TRUE, end |-> a10, name |-> Slice(s, a3, a4 - 1),
             hex_data |-> Slice(s, a8, a9 - 1)]

RECURSIVE FindAllHex(_, _)
\* re.findall(r'0x[0-9a-fA-F]+', s), from position p
FindAllHex(s, p) ==
    LET a == First({r \in p..Len(s) :
                       Run1(s, Lit(s, r, TxtHexPrefix), HexChars) /= 0})
        q == Run1(s, Lit(s, a, TxtHexPrefix), HexChars)
    IN IF a = 0 THEN <<>>
       ELSE <<Slice(s, a, q - 1)>> \o FindAllHex(s, q)

\* values = [int(x.strip(), 16) for x in re.findall(...)]
ParseValues(hex_data) ==
    LET found == FindAllHex(hex_data, 1)
    IN [i \in 1..Len(found) |-> ParseInt(found[i], 16)]

\* new_values = [reverse_bits(v) for v in values]
ReverseValues(values) == [i \in 1..Len(values) |-> reverse_bits(values[i])]

\* f"0x{v:02x}"
FormatByte(v) == TxtHexPrefix \o ZeroPad(ToBase(v, 16, HexLower), 2)

\* new_hex_data = ", ".join([f"0x{v:02x}" for v in new_values])
FormatValues(new_values) ==
    Join([i \in 1..Len(new_values) |-> FormatByte(new_values[i])], TxtCommaSpace)

RECURSIVE WrapLoop(_, _)
\* the loop over new_hex_data.split(', '), cnt values done so far
WrapLoop(parts, cnt) ==
    IF cnt = Len(parts) THEN <<>>
    ELSE parts[cnt + 1] \o TxtCommaSpace
         \o (IF (cnt + 1) % WrapWidth = 0 THEN <<"\n">> ELSE <<>>)
         \o WrapLoop(parts, cnt + 1)

\* wrapped_data, after its strip(", \n")
WrapValues(new_hex_data) ==
    Strip(WrapLoop(Split(new_hex_data, TxtCommaSpace), 0), {",", " ", "\n"})

\* f"const unsigned char {name}[] PROGMEM = {{{wrapped_data}}};"
Declaration(name, wrapped_data) ==
    TxtDeclHead \o name \o TxtDeclMid \o wrapped_data \o TxtDeclEnd

\* replacement(match)
replacement(m) ==
    Declaration(m.name,
        WrapValues(FormatValues(ReverseValues(ParseValues(m.hex_data)))))

\* pattern.search(s, p): the first position >= p where pattern matches, 0
\* when there is none
SearchPattern(s, p) == First({q \in p..Len(s) : MatchPattern(s, q).ok})

RECURSIVE SubPattern(_, _)
\* pattern.sub(replacement, s), from position p: the text between the
\* matches is kept, each match is replaced, the scan goes on after the match
SubPattern(s, p) ==
    LET q == SearchPattern(s, p)
        m == MatchPattern(s, q)
    IN IF q = 0 THEN Slice(s, p, Len(s))
       ELSE Slice(s, p, q - 1) \o replacement(m) \o SubPattern(s, m.end)

(***************************************************************************)
(* process_file: the call pass                                             *)
(***************************************************************************)
TxtSlashes == <<"/", "/">>
TxtDrawBitmap == <<"d", "i", "s", "p", "l", "a", "y", ".", "d", "r", "a", "w",
                   "B", "i", "t", "m", "a", "p">>
TxtSetColor == <<"d", "i", "s", "p", "l", "a", "y", ".", "s", "e", "t", "D",
                 "r", "a", "w", "C", "o", "l", "o", "r", "(", "1", ")", ";",
                 " ", "d", "i", "s", "p", "l", "a", "y", ".", "d", "r", "a",
                 "w", "X", "B", "M", "P", "(">>
TxtCallEnd == <<")", ";">>

\* \s*([^,]+), at p: the group's span and the position after the comma.  The
\* greedy \s* leaves the group what follows the whitespace; when only
\* whitespace stands before the comma it gives back its last character
Group(s, p) ==
    LET c == Until1(s, p, ",")
        a == Ws0(s, p)
        from == IF a < c THEN a ELSE c - 1
    IN IF c = 0 THEN [ok |-> FALSE, text |-> <<>>, next |-> 0]
       ELSE [ok |-> TRUE, text |-> Slice(s, from, c - 1), next |-> c + 1]

NoDraw == [ok |-> FALSE, end |-> 0, g |-> <<>>]

\* draw_pattern.match at position p:
\* //\s*display\.drawBitmap\s*\(\s*([^,]+),\s*([^,]+),\s*([^,]+),\s*([^,]+),
\* \s*([^,]+),\s*[^)]+\);
MatchDraw(s, p) ==
    LET b1 == Ws0(s, Lit(s, p, TxtSlashes))
        b2 == Ws0(s, Lit(s, b1, TxtDrawBitmap))
        b3 == Lit(s, b2, <<"(">>)
        g1 == Group(s, b3)
        g2 == Group(s, g1.next)
        g3 == Group(s, g2.next)
        g4 == Group(s, g3.next)
        g5 == Group(s, g4.next)
        b4 == Until1(s, g5.next, ")")
        b5 == Lit(s, b4, TxtCallEnd)
    IN IF b5 = 0 THEN NoDraw
       ELSE [ok |-> TRUE, end |-> b5,
             g |-> <<g1.text, g2.text, g3.text, g4.text, g5.text>>]

\* a slip: the arguments in their original order
draw_replacement_unmoved(m) ==
    TxtSetColor \o Strip(m.g[1], Space) \o TxtCommaSpace
                \o Strip(m.g[2], Space) \o TxtCommaSpace
                \o Strip(m.g[3], Space) \o TxtCommaSpace
                \o Strip(m.g[4], Space) \o TxtCommaSpace
                \o Strip(m.g[5], Space) \o TxtCallEnd

\* draw_replacement(match):
\* f"display.setDrawColor(1); display.drawXBMP({x}, {y}, {w}, {h}, {bitmap});"
draw_replacement(m) ==
    LET x == Strip(m.g[1], Space)
        y == Strip(m.g[2], Space)
        bitmap == Strip(m.g[3], Space)
        w == Strip(m.g[4], Space)
        h == Strip(m.g[5], Space)
    IN TxtSetColor \o x \o TxtCommaSpace \o y \o TxtCommaSpace
                   \o w \o TxtCommaSpace \o h \o TxtCommaSpace
                   \o bitmap \o TxtCallEnd

\* draw_pattern.search(s, p)
SearchDraw(s, p) == First({q \in p..Len(s) : MatchDraw(s, q).ok})

RECURSIVE SubDraw(_, _)
\* draw_pattern.sub(draw_replacement, s), from position p
SubDraw(s, p) ==
    LET q == SearchDraw(s, p)
        m == MatchDraw(s, q)
    IN IF q = 0 THEN Slice(s, p, Len(s))
       ELSE Slice(s, p, q - 1) \o draw_replacement(m) \o SubDraw(s, m.end)

(***************************************************************************)
(* Inputs.  An array declaration is drawn as a name, a layout and a list   *)
(* of tokens; a buffer of calls as a layout and a list of calls.  The      *)
(* passes see only the text.                                               *)
(***************************************************************************)
SeqsUpTo(S, n) == UNION {[1..k -> S] : k \in 0..n}

\* every two-digit lowercase literal: the 256 byte values
ByteToks == {<<"0", "x", HexLower[i], HexLower[j]>> : i, j \in 1..16}

TokByteLow == <<"0", "x", "0", "1">>
TokOneDigit == <<"0", "x", "7">>
TokUpperDigits == <<"0", "x", "A", "B">>
TokThreeDigits == <<"0", "x", "1", "f", "f">>
TokNineBits == <<"0", "x", "1", "0", "0">>
TokDecimal == <<"1", "0">>
TokIdent == <<"i", "c", "o", "n">>
TokIdentWithHex == <<"g", "0", "x", "1", "3">>
TokUpperPrefix == <<"0", "X", "0", "f">>

\* the tokens drawn freely
FreeToks == {TokByteLow, TokOneDigit, TokUpperDigits, TokThreeDigits,
             TokNineBits, TokDecimal, TokIdent, TokIdentWithHex,
             TokUpperPrefix}

\* the i-th token of the full lines in front: two-digit literals
LineTok(i) ==
    <<"0", "x", HexLower[(i % 16) + 1], HexLower[((7 * i) % 16) + 1]>>

\* the numbers of tokens in front: none, and one short of and exactly each
\* number of full lines
Fills == {0} \cup {k * WrapWidth - 1 : k \in 1..MaxLines}
             \cup {k * WrapWidth : k \in 1..MaxLines}

Layouts == {"plain", "spread", "sized"}

ArrayInputs ==
    [kind : {"array"}, layout : Layouts, fill : Fills,
     toks : SeqsUpTo(FreeToks, MaxToks)]
    \cup [kind : {"array"}, layout : {"plain"}, fill : {0},
          toks : {<<t>> : t \in ByteToks}]

\* all the tokens of an input, in order
AllToks(a) == [i \in 1..a.fill |-> LineTok(i)] \o a.toks

\* the text of an input: "sized" is no declaration the pattern matches
ArrayText(a) ==
    CASE a.layout = "plain" ->
           TxtDeclHead \o TokIdent \o TxtDeclMid
           \o Join(AllToks(a), TxtCommaSpace) \o TxtDeclEnd
      [] a.layout = "spread" ->
           TxtConst \o <<" ", " ">> \o TxtUnsigned \o <<"\n">> \o TxtChar
           \o <<"\t">> \o TokIdent \o <<" ", "[", "]">> \o TxtProgmem
           \o <<"=", "{", " ">> \o Join(AllToks(a), <<",", "\n", " ">>)
           \o <<" ">> \o TxtDeclEnd
      [] a.layout = "sized" ->
           TxtDeclHead \o TokIdent \o <<"[", "8", "]", " ">> \o TxtProgmem
           \o <<" ", "=", " ", "{">> \o Join(AllToks(a), TxtCommaSpace)
           \o TxtDeclEnd

\* the arguments of every call drawn: x, y, bitmap, w, h
ArgX == <<"1">>
ArgY == <<"2">>
ArgBitmap == TokIdent
ArgW == <<"8">>
ArgH == <<"9">>

CallKinds == {"active", "commented", "commentline"}
Trails == {"none", "one", "two"}
Styles == {"tight", "spaced", "blank"}

CallInputs ==
    [kind : {"calls"}, style : Styles,
     calls : SeqsUpTo([kind : CallKinds, trail : Trails], MaxCalls) \ {<<>>}]

\* an argument as the style writes it; "blank" leaves x out
ArgText(style, i, core) ==
    CASE style = "tight" -> core
      [] style = "spaced" -> <<" ">> \o core \o <<" ">>
      [] style = "blank" -> IF i = 1 THEN <<" ">> ELSE core

\* x as the style leaves it once trimmed
CoreX(style) == IF style = "blank" THEN <<>> ELSE ArgX

TrailText(style, trail) ==
    CASE trail = "none" -> <<>>
      [] trail = "one" ->
           IF style = "spaced" THEN <<",", " ", "1">> ELSE <<",", "1">>
      [] trail = "two" ->
           IF style = "spaced" THEN <<",", " ", "0", ",", " ", "1">>
           ELSE <<",", "0", ",", "1">>

\* display.drawBitmap(x, y, bitmap, w, h[, colour[, bg]]);
InvocationText(style, c) ==
    TxtDrawBitmap \o (IF style = "spaced" THEN <<" ">> ELSE <<>>) \o <<"(">>
    \o ArgText(style, 1, ArgX) \o <<",">> \o ArgText(style, 2, ArgY) \o <<",">>
    \o ArgText(style, 3, ArgBitmap) \o <<",">> \o ArgText(style, 4, ArgW)
    \o <<",">> \o ArgText(style, 5, ArgH) \o TrailText(style, c.trail)
    \o TxtCallEnd

\* what stands before the invocation: nothing, the comment marker on its
\* line, or a comment marker alone on the line before
MarkerText(style, c) ==
    CASE c.kind = "active" -> <<>>
      [] c.kind = "commented" ->
           TxtSlashes \o (IF style = "spaced" THEN <<" ">> ELSE <<>>)
      [] c.kind = "commentline" -> TxtSlashes \o <<"\n">>

CallText(style, c) == MarkerText(style, c) \o InvocationText(style, c)

\* the calls, one to a line
CallsText(b) ==
    Join([i \in 1..Len(b.calls) |-> CallText(b.style, b.calls[i])], <<"\n">>)

\* the files of the runs of process_file: a declaration, then a call
FileInputs ==
    [kind : {"file"},
     array : [kind : {"array"}, layout : {"plain", "sized"}, fill : {0},
              toks : {<<>>, <<TokByteLow>>, <<TokByteLow, TokUpperDigits>>}],
     call : [kind : {"active", "commented"}, trail : {"one"}]]

FileText(f) ==
    ArrayText(f.array) \o <<"\n">> \o CallText("tight", f.call) \o <<"\n">>

(***************************************************************************)
(* State.                                                                  *)
(***************************************************************************)
\* the locals of replacement before it runs
NoLocals == [at |-> 0, m |-> NoMatch, values |-> <<>>, new_values |-> <<>>,
             new_hex_data |-> <<>>, wrapped_data |-> <<>>]

Idle ==
    /\ disk = <<>>
    /\ content = <<>>
    /\ new_content = <<>>
    /\ loc = NoLocals
    /\ again = <<>>

(***************************************************************************)
(* reverse_bits on one value.                                              *)
(***************************************************************************)
BitsInit ==
    /\ inp \in [kind : {"byte"}, n : 0..255]
    /\ pc = "start"
    /\ Idle

CallReverseBits ==
    /\ pc = "start"
    /\ inp.kind = "byte"
    /\ loc' = [loc EXCEPT !.values = <<inp.n>>,
                          !.new_values = <<reverse_bits(inp.n)>>]
    /\ pc' = "reversed"
    /\ UNCHANGED <<inp, disk, content, new_content, again>>

BitsNext == CallReverseBits

SpecBits == BitsInit /\ [][BitsNext]_vars

(***************************************************************************)
(* The array pass on one declaration, statement by statement, and the      *)
(* pass applied again to its own output.                                   *)
(***************************************************************************)
ArrayInit ==
    /\ inp \in ArrayInputs
    /\ pc = "start"
    /\ disk = <<>>
    /\ content = ArrayText(inp)
    /\ new_content = <<>>
    /\ loc = NoLocals
    /\ again = <<>>

\* pattern.sub finds no declaration: the text is returned as it is
SearchNone ==
    /\ pc = "start"
    /\ SearchPattern(content, 1) = 0
    /\ new_content' = content
    /\ pc' = "returned"
    /\ UNCHANGED <<inp, disk, content, loc, again>>

\* pattern.sub finds the declaration and calls replacement(match)
SearchFound ==
    /\ pc = "start"
    /\ SearchPattern(content, 1) /= 0
    /\ loc' = [loc EXCEPT !.at = SearchPattern(content, 1),
                          !.m = MatchPattern(content, SearchPattern(content, 1))]
    /\ pc' = "matched"
    /\ UNCHANGED <<inp, disk, content, new_content, again>>

Parse ==
    /\ pc = "matched"
    /\ loc' = [loc EXCEPT !.values = ParseValues(loc.m.hex_data)]
    /\ pc' = "parsed"
    /\ UNCHANGED <<inp, disk, content, new_content, again>>

Reverse ==
    /\ pc = "parsed"
    /\ loc' = [loc EXCEPT !.new_values = ReverseValues(loc.values)]
    /\ pc' = "reversed"
    /\ UNCHANGED <<inp, disk, content, new_content, again>>

Format ==
    /\ pc = "reversed"
    /\ loc' = [loc EXCEPT !.new_hex_data = FormatValues(loc.new_values)]
    /\ pc' = "formatted"
    /\ UNCHANGED <<inp, disk, content, new_content, again>>

Wrap ==
    /\ pc = "formatted"
    /\ loc' = [loc EXCEPT !.wrapped_data = WrapValues(loc.new_hex_data)]
    /\ pc' = "wrapped"
    /\ UNCHANGED <<inp, disk, content, new_content, again>>

\* replacement returns the declaration; sub puts it in place of the match
\* and goes on after it
Return ==
    /\ pc = "wrapped"
    /\ new_content' = Slice(content, 1, loc.at - 1)
                      \o Declaration(loc.m.name, loc.wrapped_data)
                      \o SubPattern(content, loc.m.end)
    /\ pc' = "returned"
    /\ UNCHANGED <<inp, disk, content, loc, again>>

\* the array pass on its own output
ArrayAgain ==
    /\ pc = "returned"
    /\ inp.kind = "array"
    /\ again' = SubPattern(new_content, 1)
    /\ pc' = "twice"
    /\ UNCHANGED <<inp, disk, content, new_content, loc>>

ArrayNext ==
    \/ SearchNone
    \/ SearchFound
    \/ Parse
    \/ Reverse
    \/ Format
    \/ Wrap
    \/ Return
    \/ ArrayAgain

SpecArray == ArrayInit /\ [][ArrayNext]_vars

(***************************************************************************)
(* The call pass on a buffer, and the pass applied again to its output.    *)
(***************************************************************************)
CallInit ==
    /\ inp \in CallInputs
    /\ pc = "start"
    /\ disk = <<>>
    /\ content = CallsText(inp)
    /\ new_content = <<>>
    /\ loc = NoLocals
    /\ again = <<>>

DrawOnce ==
    /\ pc = "start"
    /\ inp.kind = "calls"
    /\ new_content' = SubDraw(content, 1)
    /\ pc' = "once"
    /\ UNCHANGED <<inp, disk, content, loc, again>>

DrawAgain ==
    /\ pc = "once"
    /\ again' = SubDraw(new_content, 1)
    /\ pc' = "twice"
    /\ UNCHANGED <<inp, disk, content, new_content, loc>>

CallNext == DrawOnce \/ DrawAgain

SpecCall == CallInit /\ [][CallNext]_vars

(***************************************************************************)
(* process_file: a run on a file, each step of which may fail.             *)
(***************************************************************************)
Init ==
    /\ inp \in FileInputs
    /\ pc = "closed"
    /\ disk = FileText(inp)
    /\ content = <<>>
    /\ new_content = <<>>
    /\ loc = NoLocals
    /\ again = <<>>

\* open(filename, 'r')
OpenRead ==
    /\ pc = "closed"
    /\ pc' = "reading"
    /\ UNCHANGED <<inp, disk, content, new_content, loc, again>>

\* open(filename, 'r') raises: the file is not there, or not readable
OpenReadFails ==
    /\ pc = "closed"
    /\ pc' = "failed"
    /\ UNCHANGED <<inp, disk, content, new_content, loc, again>>

\* content = f.read()
Read ==
    /\ pc = "reading"
    /\ content' = disk
    /\ pc' = "read"
    /\ UNCHANGED <<inp, disk, new_content, loc, again>>

\* f.read() raises
ReadFails ==
    /\ pc = "reading"
    /\ pc' = "failed"
    /\ UNCHANGED <<inp, disk, content, new_content, loc, again>>

\* new_content = pattern.sub(replacement, content)
ArrayPass ==
    /\ pc = "read"
    /\ new_content' = SubPattern(content, 1)
    /\ pc' = "arrays"
    /\ UNCHANGED <<inp, disk, content, loc, again>>

\* new_content = draw_pattern.sub(draw_replacement, new_content)
CallPass ==
    /\ pc = "arrays"
    /\ new_content' = SubDraw(new_content, 1)
    /\ pc' = "calls"
    /\ UNCHANGED <<inp, disk, content, loc, again>>

\* open(filename, 'w'): the mode truncates the file as it opens it
OpenWrite ==
    /\ pc = "calls"
    /\ disk' = <<>>
    /\ pc' = "writing"
    /\ UNCHANGED <<inp, content, new_content, loc, again>>

\* open(filename, 'w') raises: the file is not writable, and is not touched
OpenWriteFails ==
    /\ pc = "calls"
    /\ pc' = "failed"
    /\ UNCHANGED <<inp, disk, content, new_content, loc, again>>

\* f.write(new_content) and the close of the with block
Write ==
    /\ pc = "writing"
    /\ disk' = new_content
    /\ pc' = "done"
    /\ UNCHANGED <<inp, content, new_content, loc, again>>

\* the write or the flush at the close raises (no space left, an I/O
\* error): what reached the file before is some prefix of the text
WriteFails ==
    /\ pc = "writing"
    /\ \E k \in 0..(Len(new_content) - 1) : disk' = Slice(new_content, 1, k)
    /\ pc' = "failed"
    /\ UNCHANGED <<inp, content, new_content, loc, again>>

Next ==
    \/ OpenRead
    \/ OpenReadFails
    \/ Read
    \/ ReadFails
    \/ ArrayPass
    \/ CallPass
    \/ OpenWrite
    \/ OpenWriteFails
    \/ Write
    \/ WriteFails

Spec == Init /\ [][Next]_vars

(***************************************************************************)
(* What the properties are stated with: the bits of a value, and a         *)
(* declaration read token by token.                                        *)
(***************************************************************************)
\* bit i of v
Bit(v, i) == (v \div (2 ^ i)) % 2

\* the value whose bit i is bit 7 - i of v
Rev8(v) ==
    Bit(v, 0) * 128 + Bit(v, 1) * 64 + Bit(v, 2) * 32 + Bit(v, 3) * 16
    + Bit(v, 4) * 8 + Bit(v, 5) * 4 + Bit(v, 6) * 2 + Bit(v, 7)

\* a token 0x<hex digits>
IsHexLiteral(t) ==
    /\ Len(t) >= 3
    /\ t[1] = "0"
    /\ t[2] = "x"
    /\ \A i \in 3..Len(t) : t[i] \in HexChars

\* a hexadecimal byte literal: 0x and one or two digits
IsByteLiteral(t) == IsHexLiteral(t) /\ Len(t) <= 4

\* the value a hexadecimal literal denotes
LiteralValue(t) == ParseDigits(Slice(t, 3, Len(t)), 16)

\* the text between the braces of a declaration
BodyOf(text) ==
    Slice(text, Scan(text, 1, {"{"}, TRUE) + 1, Scan(text, 1, {"}"}, TRUE) - 1)

\* the comma separated tokens of a body, trimmed
TokensOf(body) ==
    LET parts == Split(body, <<",">>)
    IN [i \in 1..Len(parts) |-> Strip(parts[i], Space)]

\* the values a declaration holds: those of its hexadecimal literals
HeldValues(text) ==
    LET lits == SelectSeq(TokensOf(BodyOf(text)), IsHexLiteral)
    IN [i \in 1..Len(lits) |-> LiteralValue(lits[i])]

\* the name a declaration gives its array
NameOf(text) ==
    LET a == Len(TxtDeclHead) + 1
    IN Slice(text, a, Scan(text, a, WordChars, FALSE) - 1)

\* whether sub stands somewhere in s
Contains(s, sub) == \E p \in 1..Len(s) : At(s, p, sub)

\* the replacement of a matched declaration is in new_content
Replaced == pc = "returned" /\ inp.kind = "array" /\ loc.m.ok

(***************************************************************************)
(* C1.  The replacement declaration keeps the name and holds as many       *)
(* values as were extracted, in the same order, the i-th the bit reversal  *)
(* of the i-th extracted value.                                            *)
(***************************************************************************)
C1_ValuesReversedInPlace ==
    Replaced =>
        /\ NameOf(new_content) = loc.m.name
        /\ Len(HeldValues(new_content)) = Len(loc.values)
        /\ \A i \in 1..Len(loc.values) :
               HeldValues(new_content)[i] = Rev8(loc.values[i])

(***************************************************************************)
(* C2.  For every v in 0..255, reverse_bits(v) is in 0..255 and its bit i  *)
(* is bit 7 - i of v, for every i in 0..7.                                 *)
(***************************************************************************)
C2_ReverseBits ==
    (pc = "reversed" /\ inp.kind = "byte") =>
        /\ loc.new_values[1] \in 0..255
        /\ \A i \in 0..7 : Bit(loc.new_values[1], i) = Bit(inp.n, 7 - i)

\* reverse_bits has turned 0x13 into 0xc8
C2_Witness ==
    /\ pc = "reversed"
    /\ inp.kind = "byte"
    /\ inp.n = 19
    /\ loc.new_values = <<200>>

(***************************************************************************)
(* C3.  Every match of the call pattern is replaced, whole, by             *)
(* display.setDrawColor(1); display.drawXBMP(x, y, w, h, bitmap); with the *)
(* five captured texts trimmed, the third moved last, and what follows the *)
(* fifth dropped.  The buffer is read as it was drawn, call by call: a     *)
(* marked call with trailing arguments is one match; a marked call without *)
(* them is a match only together with the call on the next line, whose     *)
(* first comma ends its fifth text; every other call is no match and stays.*)
(***************************************************************************)
Statements(x, y, w, h, bitmap) ==
    TxtSetColor \o x \o TxtCommaSpace \o y \o TxtCommaSpace \o w
    \o TxtCommaSpace \o h \o TxtCommaSpace \o bitmap \o TxtCallEnd

\* the text of call i up to the comma after its first argument
UpToFirstComma(b, i) ==
    LET t == CallText(b.style, b.calls[i])
    IN Slice(t, 1, Scan(t, 1, {","}, TRUE) - 1)

RECURSIVE ExpectedCalls(_, _)
ExpectedCalls(b, i) ==
    LET n == Len(b.calls)
        c == b.calls[i]
        marked == c.kind /= "active"
        rest(j) == IF j > n THEN <<>> ELSE <<"\n">> \o ExpectedCalls(b, j)
    IN IF i > n THEN <<>>
       ELSE IF marked /\ c.trail /= "none"
       THEN Statements(CoreX(b.style), ArgY, ArgW, ArgH, ArgBitmap)
            \o rest(i + 1)
       ELSE IF marked /\ i < n
       THEN Statements(CoreX(b.style), ArgY, ArgW,
                Strip(ArgH \o (IF b.style = "spaced" THEN <<" ">> ELSE <<>>)
                      \o TxtCallEnd \o <<"\n">> \o UpToFirstComma(b, i + 1),
                      Space),
                ArgBitmap)
            \o rest(i + 2)
       ELSE CallText(b.style, c) \o rest(i + 1)

C4_OnlyBytes ==
    (pc = "reversed" /\ inp.kind = "array") =>
        /\ \A i \in 1..Len(loc.values) : loc.values[i] \in 0..255
        /\ \A i \in 1..Len(loc.new_values) : loc.new_values[i] \in 0..255
        /\ LET lits == SelectSeq(AllToks(inp), IsByteLiteral)
           IN loc.values = [i \in 1..Len(lits) |-> LiteralValue(lits[i])]

(***************************************************************************)
(* C5.  The array pass applied to its own output gives back the values     *)
(* extracted from the original body.                                       *)
(***************************************************************************)
C5_TwoPassesRestore ==
    (pc = "twice" /\ inp.kind = "array" /\ loc.m.ok) =>
        HeldValues(again) = loc.values

(***************************************************************************)
(* C6.  The call pass applied to its own output changes nothing.           *)
(***************************************************************************)
C6_CallPassIdempotent ==
    (pc = "twice" /\ inp.kind = "calls") => again = new_content

(***************************************************************************)
(* C7.  A call with no comment marker before it on its own line is in the  *)
(* output of the call pass as it was, whatever stands on the lines before. *)
(***************************************************************************)
C7_ActiveCallKept ==
    (pc = "once" /\ inp.kind = "calls") =>
        \A i \in 1..Len(inp.calls) :
            inp.calls[i].kind \in {"active", "commentline"} =>
                Contains(new_content, InvocationText(inp.style, inp.calls[i]))

(***************************************************************************)
(* C8.  The replacement body of N values is N literals, each 0x and two    *)
(* lowercase hexadecimal digits, with ", " between two literals and a line *)
(* break after it behind every 12th literal that has a successor, and      *)
(* nothing after the last literal.                                         *)
(***************************************************************************)
\* where the k-th literal starts: six characters for each literal before it,
\* one more for each full line
LiteralStart(k) == (k - 1) * 6 + ((k - 1) \div WrapWidth) + 1

WellWrapped(body, n) ==
    /\ Len(body) = (IF n = 0 THEN 0 ELSE LiteralStart(n) + 3)
    /\ \A k \in 1..n :
           LET a == LiteralStart(k)
           IN /\ At(body, a, TxtHexPrefix)
              /\ body[a + 2] \in Range(HexLower)
              /\ body[a + 3] \in Range(HexLower)
              /\ k < n => At(body, a + 4, TxtCommaSpace)
              /\ (k < n /\ k % WrapWidth = 0) => body[a + 6] = "\n"

C8_BodyShape ==
    Replaced => WellWrapped(BodyOf(new_content), Len(loc.values))

(***************************************************************************)
(* C9.  The values of the replacement are the bit reversals of exactly the *)
(* hexadecimal byte literals among the tokens of the body: a decimal       *)
(* literal or an identifier contributes nothing.  A hexadecimal literal of *)
(* more than two digits is C4's matter: here it counts as a literal, and   *)
(* nothing is said of its value.                                           *)
(***************************************************************************)
C9_OtherTokensSkipped ==
    Replaced =>
        LET lits == SelectSeq(AllToks(inp), IsHexLiteral)
            held == HeldValues(new_content)
        IN /\ Len(held) = Len(lits)
           /\ \A i \in 1..Len(lits) :
                  IsByteLiteral(lits[i]) => held[i] = Rev8(LiteralValue(lits[i]))

(***************************************************************************)
(* C10.  A run ends with the file holding the fully transformed text, or   *)
(* with a failure raised and the file holding its original content.        *)
(***************************************************************************)
C10_AllOrNothing ==
    /\ pc = "done" => disk = SubDraw(SubPattern(FileText(inp), 1), 1)
    /\ pc = "failed" => disk = FileText(inp)

(***************************************************************************)
(* What holds of the bodies whose extracted values are all bytes: C1, C5   *)
(* and C8 fail on no other body.                                           *)
(***************************************************************************)
AllBytes == \A i \in 1..Len(loc.values) : loc.values[i] \in 0..255

BytesReversedInPlace ==
    (Replaced /\ AllBytes) =>
        /\ NameOf(new_content) = loc.m.name
        /\ Len(HeldValues(new_content)) = Len(loc.values)
        /\ \A i \in 1..Len(loc.values) :
               HeldValues(new_content)[i] = Rev8(loc.values[i])

BytesRestored ==
    (pc = "twice" /\ inp.kind = "array" /\ loc.m.ok /\ AllBytes) =>
        HeldValues(again) = loc.values

BytesWellWrapped ==
    (Replaced /\ AllBytes) =>
        WellWrapped(BodyOf(new_content), Len(loc.values))

\* the statements of replacement, one after the other, are pattern.sub
StepsAreSub == Replaced => new_content = SubPattern(content, 1)

\* the file is written only once both passes are done
WriteComesLast == [][disk' /= disk => pc \in {"calls", "writing"}]_vars

====
